---- MODULE Spec2Model ----
(***************************************************************************)
(* Model of the Notion + Git bridge agent: MCPAgent (src/src/agents.py)    *)
(* driving the tool server (src/src/mcp_server.py).                        *)
(*                                                                         *)
(* Strings that the code builds by concatenation are sequences of tokens;  *)
(* a token is a TLA+ string.  The cross-mark glyph that starts the error   *)
(* strings of agents.py is left out of the tokens.                         *)
(***************************************************************************)
EXTENDS Integers, Sequences, FiniteSets, TLC

\* ------------------------------------------------------------------ bounds
\* most entries (files and directories) of a repository tree
MaxRepoNodes == 5
\* most blocks of a document
MaxDocNodes == 6
\* most blocks of a document searched for tables
MaxDbNodes == 5
\* most content items of a server reply
MaxContents == 2
\* largest max_iters a caller passes to run()
MaxIters == 2
\* most tool invocation requests the completion service emits during one run
MaxRequests == 2

\* ------------------------------------------------------------ small helpers
\* a message.content that is None
NoContent == <<>>

Range(s) == {s[i] : i \in 1..Len(s)}

\* str.join on token sequences: sep.join(parts)
RECURSIVE Join(_, _)
Join(sep, parts) ==
    IF parts = <<>> THEN <<>>
    ELSE IF Len(parts) = 1 THEN Head(parts)
    ELSE Head(parts) \o <<sep>> \o Join(sep, Tail(parts))

\* -------------------------------------------------------- text and strings
\* the identifiers the provenance sets can hold, in Python's string order
StrRank(s) ==
    CASE s = "P1" -> 1
      [] s = "Project Database" -> 2
      [] s = "Unknown Page" -> 3
      [] s = "unknown" -> 4
      [] s = "x.py" -> 5

\* sorted(S) for a set of identifiers
RECURSIVE Sorted(_)
Sorted(S) ==
    IF S = {} THEN <<>>
    ELSE LET m == CHOOSE x \in S : \A y \in S : StrRank(x) <= StrRank(y)
         IN <<m>> \o Sorted(S \ {m})

Whitespace == {" ", "\n"}

\* str.strip() on a token sequence
RECURSIVE LStrip(_)
LStrip(s) == IF s # <<>> /\ Head(s) \in Whitespace THEN LStrip(Tail(s)) ELSE s

RECURSIVE RStrip(_)
RStrip(s) ==
    IF s # <<>> /\ s[Len(s)] \in Whitespace THEN RStrip(SubSeq(s, 1, Len(s) - 1)) ELSE s

Strip(s) == RStrip(LStrip(s))

SYSTEM_PROMPT == <<"You are an expert Notion + Git bridge analyst">>

ErrorPrefix == "Error occurred: "
MaxItersSentinel == <<"Max iterations reached. The analysis may be incomplete.">>
NoResponse == <<"No response generated.">>
SourcesHeader == "\n\n**Sources:** "
BasedOn == "Based on"
\* stands for the backquote character that wraps a file name in the footer
Backquote == "[backquote]"

\* --------------------------------------------------------------- JSON text
\* The argument texts the completion service emits in this model.
ArgsPage == "{\"page_id\": \"P1\"}"
ArgsPath == "{\"path\": \"x.py\"}"
ArgsDb == "{\"database_id\": \"D1\"}"
ArgsEmpty == "{}"
ArgsMalformed == "{\"path\": "

JSONDecodeMessage == "Expecting value: line 1 column 10 (char 9)"

\* json.loads on an argument text: the decoded mapping, or the decode error
JsonLoadsArgs(text) ==
    CASE text = ArgsPage -> [ok |-> TRUE, value |-> [page_id |-> "P1"]]
      [] text = ArgsPath -> [ok |-> TRUE, value |-> [path |-> "x.py"]]
      [] text = ArgsDb -> [ok |-> TRUE, value |-> [database_id |-> "D1"]]
      [] text = ArgsEmpty -> [ok |-> TRUE, value |-> <<>>]
      [] OTHER -> [ok |-> FALSE, error |-> JSONDecodeMessage]

\* dict.get(key, default) on a decoded mapping
DictGet(d, key, default) == IF key \in DOMAIN d THEN d[key] ELSE default

\* ------------------------------------------------------------- tool server
\* keys of tool_handlers
tool_handlers ==
    {"github_search_code", "github_get_file", "github_list_repo", "notion_search",
     "notion_get_page_content", "notion_query_database", "notion_get_db_from_page",
     "notion_list_all_databases"}

\* parameters of each handler's signature that have no default
RequiredParams(name) ==
    CASE name = "github_search_code" -> {"query"}
      [] name = "github_get_file" -> {"path"}
      [] name = "github_list_repo" -> {}
      [] name = "notion_search" -> {"query"}
      [] name = "notion_get_page_content" -> {"page_id"}
      [] name = "notion_query_database" -> {"database_id"}
      [] name = "notion_get_db_from_page" -> {"page_id"}
      [] name = "notion_list_all_databases" -> {}

\* parameters of each handler's signature that have a default
OptionalParams(name) ==
    CASE name = "github_list_repo" -> {"path"}
      [] name = "notion_query_database" -> {"feature"}
      [] OTHER -> {}

\* handler(**arguments) binds: no parameter missing, no unexpected keyword
ArgumentsBind(name, arguments) ==
    /\ RequiredParams(name) \subseteq DOMAIN arguments
    /\ DOMAIN arguments \subseteq RequiredParams(name) \cup OptionalParams(name)

\* What the knowledge-base or repository service does during one handler run.
\*   "ok"        every request answers 200 with usable data
\*   "non200"    the (first) request answers with another status
\*   "empty"     the requests answer 200 and there is nothing to report
\*   "raise"     a request or the decoding of its body raises
\*   "raise0"    a row's title is a mapping, so title[0] raises KeyError(0)
UpstreamOutcomes(name) ==
    CASE name = "notion_query_database" -> {"ok", "non200", "raise", "raise0"}
      [] name = "notion_get_db_from_page" -> {"ok", "non200", "empty"}
      [] name = "notion_get_page_content" -> {"ok", "non200", "empty", "raise"}
      [] name = "github_search_code" -> {"ok", "non200", "raise"}
      [] OTHER -> {"ok", "non200", "raise"}

UpstreamErrorText == "upstream error body"
ConnectionErrorMessage == "Connection aborted."
KeyError0Message == "0"

\* str(e) of the exception a handler run raises
RaisedMessage(up) == IF up = "raise0" THEN KeyError0Message ELSE ConnectionErrorMessage

\* the handlers, as functions of their arguments and of what upstream does;
\* Raised(msg) stands for an exception leaving the handler
Returned(d) == [raised |-> FALSE, value |-> d]
Raised(msg) == [raised |-> TRUE, msg |-> msg]

github_search_code(arguments, up) ==
    CASE up = "ok" -> Returned([success |-> TRUE, files |-> <<"x.py">>])
      [] up = "non200" -> Returned([success |-> FALSE])
      [] OTHER -> Raised(RaisedMessage(up))

github_get_file(arguments, up) ==
    CASE up = "non200" -> Returned([success |-> FALSE])
      [] up = "ok" -> Returned([success |-> TRUE, content |-> "file text",
                                url |-> "html_url", path |-> arguments.path])
      [] OTHER -> Raised(RaisedMessage(up))

github_list_repo(arguments, up) ==
    CASE up = "non200" -> Returned([success |-> FALSE, error |-> UpstreamErrorText])
      [] up = "ok" -> Returned([success |-> TRUE, items |-> <<"x.py">>])
      [] OTHER -> Raised(RaisedMessage(up))

notion_search(arguments, up) ==
    CASE up = "non200" -> Returned([success |-> FALSE, error |-> UpstreamErrorText])
      [] up = "ok" -> Returned([success |-> TRUE, results |-> <<"P1">>])
      [] OTHER -> Raised(RaisedMessage(up))

notion_get_page_content(arguments, up) ==
    CASE up = "ok" -> Returned([success |-> TRUE, content |-> "page text"])
      [] up \in {"non200", "empty"} -> Returned([success |-> FALSE])
      [] OTHER -> Raised(RaisedMessage(up))

notion_query_database(arguments, up) ==
    CASE up = "non200" -> Returned([success |-> FALSE, error |-> UpstreamErrorText])
      [] up = "ok" -> Returned([success |-> TRUE, tasks |-> <<"task">>, count |-> 1])
      [] OTHER -> Raised(RaisedMessage(up))

notion_get_db_from_page(arguments, up) ==
    CASE up = "ok" -> Returned([success |-> TRUE, database_id |-> "D1",
                                title |-> "Untitled Database", type |-> "child_database",
                                total_found |-> 1, all_databases |-> <<"D1">>])
      [] OTHER -> Returned([success |-> FALSE,
                            error |-> "No inline or linked database found in this page"])

notion_list_all_databases(arguments, up) ==
    CASE up = "non200" -> Returned([success |-> FALSE, error |-> UpstreamErrorText])
      [] up = "ok" -> Returned([success |-> TRUE, databases |-> <<"D1">>, count |-> 1])
      [] OTHER -> Raised(RaisedMessage(up))

\* tool_handlers[name](**arguments)
RunHandler(name, arguments, up) ==
    CASE name = "github_search_code" -> github_search_code(arguments, up)
      [] name = "github_get_file" -> github_get_file(arguments, up)
      [] name = "github_list_repo" -> github_list_repo(arguments, up)
      [] name = "notion_search" -> notion_search(arguments, up)
      [] name = "notion_get_page_content" -> notion_get_page_content(arguments, up)
      [] name = "notion_query_database" -> notion_query_database(arguments, up)
      [] name = "notion_get_db_from_page" -> notion_get_db_from_page(arguments, up)
      [] name = "notion_list_all_databases" -> notion_list_all_databases(arguments, up)

\* A text payload is either the json.dumps of a mapping or a raw string.
JsonDumps(d) == [kind |-> "json", obj |-> d]
RawText(s) == [kind |-> "raw", raw |-> s]

\* the requested name that follows in the message is left out
UnknownToolMessage == "Unknown tool: "
TypeErrorMessage == "missing or unexpected keyword argument"

\* body of call_tool: what the decorated function does with one request
call_tool(name, arguments, up) ==
    IF name \notin tool_handlers THEN Raised(UnknownToolMessage)
    ELSE IF ~ArgumentsBind(name, arguments) THEN Raised(TypeErrorMessage)
    ELSE LET r == RunHandler(name, arguments, up)
         IN IF r.raised THEN r ELSE Returned(JsonDumps(r.value))

\* The @server.call_tool() decorator of the MCP SDK wraps the function: a
\* returned content list is sent as the reply; an exception is caught and sent
\* as a reply whose single text content is str(e), flagged isError.
ServerReply(name, arguments, up) ==
    LET r == call_tool(name, arguments, up)
    IN IF r.raised
       THEN [isError |-> TRUE, content |-> <<RawText(r.msg)>>]
       ELSE [isError |-> FALSE, content |-> <<r.value>>]

\* ------------------------------------------------------------------- state
VARIABLES
    main_pc,          \* where main() is: "connect", "test_a", "test_b", "close", "done"
    stdio_context,    \* self.stdio_context: "none", "created", "entered", "exited", "exit_failed"
    session,          \* self.session: "none", "created", "entered", "exited", "exit_failed"
    tools,            \* self.tools: names of the tool schemas handed to the completion call
    initialized,      \* session.initialize() has completed on the connection
    catalog_requests, \* session.list_tools() calls made on the connection
    runs_on_connection, \* calls of run() made so far on the agent's connection
    serverUp,         \* the tool server process is running and reachable
    run_pc,           \* where run() is: "idle", "loop", "dispatch", "awaiting_tool", "returned"
    query,            \* run's query argument
    max_iters,        \* run's max_iters argument
    iteration,        \* loop variable of run
    messages,         \* run's conversation
    sources,          \* run's provenance sets
    tool_calls,       \* message.tool_calls of the last completion response
    tool_idx,         \* position of the for loop over tool_calls
    inflight,         \* the request sent to the server or its reply
    answer,           \* the string run returned
    raised,           \* what raised into run's except clause: "none", "completion",
                      \* "arguments" (json.loads), "result" (result.get)
    completion_calls, \* completion-service calls made by the current run
    server_calls,     \* session.call_tool calls made by the current run
    fixture,          \* the repository tree or document a traversal tool is applied to
    outcome           \* what the traversal tool returned for the fixture

vars == <<main_pc, stdio_context, session, tools, initialized, catalog_requests,
          runs_on_connection, serverUp, run_pc, query, max_iters,
          iteration, messages, sources, tool_calls, tool_idx, inflight, answer,
          raised, completion_calls, server_calls, fixture, outcome>>

connVars == <<stdio_context, session, tools, initialized, catalog_requests,
              runs_on_connection>>
traversalVars == <<fixture, outcome>>
runVars == <<query, max_iters, iteration, messages, sources, tool_calls, tool_idx,
             inflight, answer, raised, completion_calls, server_calls>>

\* ------------------------------------------------------ environment inputs
\* (name, argument text) pairs the completion service asks for
RequestChoices ==
    {[name |-> "notion_get_page_content", arguments |-> ArgsPage],
     [name |-> "notion_get_page_content", arguments |-> ArgsEmpty],
     [name |-> "github_get_file", arguments |-> ArgsPath],
     [name |-> "github_get_file", arguments |-> ArgsMalformed],
     [name |-> "notion_query_database", arguments |-> ArgsDb],
     [name |-> "no_such_tool", arguments |-> ArgsEmpty]}

\* message.content of a completion response without tool calls
FinalContents ==
    {NoContent,
     <<" ", "The implementation matches.", "\n">>,
     <<BasedOn, " Notion page X and Git file Y">>}

CompletionErrorMessage == "Connection error."
TransportErrorMessage == "Connection closed"
NoContentMessage == "No content returned"

Queries == [test_a |-> "query A", test_b |-> "query B"]

SeqsUpTo(S, n) == UNION {[1..k -> S] : k \in 1..n}

\* ------------------------------------------------------------------ client
\* texts that are not the dump of a mapping and still decode as JSON
JsonScalarTexts == {KeyError0Message}

\* json.loads on a text payload of a server reply
JsonLoads(text) ==
    IF text.kind = "json" THEN [ok |-> TRUE, isDict |-> TRUE, value |-> text.obj]
    ELSE IF text.raw \in JsonScalarTexts THEN [ok |-> TRUE, isDict |-> FALSE]
    ELSE [ok |-> FALSE]

\* variant of CallResult that reads the last text payload of the reply
CallResult_LastPayload(reply) ==
    IF Len(reply.content) > 0
    THEN LET text == reply.content[Len(reply.content)]
             d == JsonLoads(text)
         IN IF d.ok
            THEN (IF d.isDict THEN [isDict |-> TRUE, value |-> d.value]
                  ELSE [isDict |-> FALSE])
            ELSE [isDict |-> TRUE, value |-> [success |-> TRUE, content |-> text.raw]]
    ELSE [isDict |-> TRUE, value |-> [success |-> FALSE, error |-> NoContentMessage]]

\* MCPAgent._call after session.call_tool returned reply
CallResult(reply) ==
    IF Len(reply.content) > 0
    THEN LET text == reply.content[1]
             d == JsonLoads(text)
         IN IF d.ok
            THEN (IF d.isDict THEN [isDict |-> TRUE, value |-> d.value]
                  ELSE [isDict |-> FALSE])
            ELSE [isDict |-> TRUE, value |-> [success |-> TRUE, content |-> text.raw]]
    ELSE [isDict |-> TRUE, value |-> [success |-> FALSE, error |-> NoContentMessage]]

\* variant of CallFailed that reports the failed call as a success
CallFailed_AsSuccess(msg) == [isDict |-> TRUE, value |-> [success |-> TRUE, content |-> msg]]

\* MCPAgent._call after session.call_tool raised e
CallFailed(msg) == [isDict |-> TRUE, value |-> [success |-> FALSE, error |-> msg]]

\* result.get("success") of run: a missing key is None, which is falsy
ResultSuccess(result) == IF "success" \in DOMAIN result THEN result.success ELSE FALSE

\* the "Track sources" block of run
TrackSources(src, function_name, function_args, result) ==
    IF ~ResultSuccess(result) THEN src
    ELSE CASE function_name = "notion_get_page_content" ->
                [src EXCEPT !.notion_pages =
                    @ \cup {DictGet(function_args, "page_id", "Unknown Page")}]
           [] function_name = "notion_query_database" ->
                [src EXCEPT !.notion_pages = @ \cup {"Project Database"}]
           [] function_name = "github_get_file" ->
                [src EXCEPT !.git_files =
                    @ \cup {DictGet(function_args, "path", "unknown")}]
           [] OTHER -> src

\* citation_parts of run
CitationParts(src) ==
    (IF src.notion_pages # {}
     THEN <<<<"Notion pages: ">> \o Join(", ", [i \in 1..Cardinality(src.notion_pages) |->
                                              <<Sorted(src.notion_pages)[i]>>])>>
     ELSE <<>>)
    \o
    (IF src.git_files # {}
     THEN <<<<"Git files: ">> \o Join(", ", [i \in 1..Cardinality(src.git_files) |->
                                           <<Backquote, Sorted(src.git_files)[i], Backquote>>])>>
     ELSE <<>>)

\* variant of FinalAnswer that appends the footer whatever the text holds
FinalAnswer_AlwaysFooter(content, src) ==
    LET stripped == IF content # NoContent THEN Strip(content) ELSE NoResponse
        parts == CitationParts(src)
    IN IF parts # <<>>
       THEN stripped \o <<SourcesHeader>> \o Join(" | ", parts)
       ELSE stripped

\* the answer run returns for a completion response without tool calls
FinalAnswer(content, src) ==
    LET stripped == IF content # NoContent THEN Strip(content) ELSE NoResponse
        parts == CitationParts(src)
    IN IF parts # <<>> /\ BasedOn \notin Range(stripped)
       THEN stripped \o <<SourcesHeader>> \o Join(" | ", parts)
       ELSE stripped

\* variant of ErrorAnswer that drops the exception's message
ErrorAnswer_NoMessage(msg) == <<ErrorPrefix, "unknown error">>

\* the string run returns from its except clause
ErrorAnswer(msg) == <<ErrorPrefix, msg>>

\* tool invocation requests carried by the assistant messages of a conversation
RECURSIVE RequestsIssued(_)
RequestsIssued(msgs) ==
    IF msgs = <<>> THEN 0
    ELSE (IF Head(msgs).role = "assistant" /\ "tool_calls" \in DOMAIN Head(msgs)
          THEN Len(Head(msgs).tool_calls) ELSE 0) + RequestsIssued(Tail(msgs))

NoSources == [notion_pages |-> {}, git_files |-> {}]
Idle == [kind |-> "none"]

\* -------------------------------------------------------------------- Init
\* the state after MCPAgent() in main
AgentInit ==
    /\ main_pc = "connect"
    /\ stdio_context = "none"
    /\ session = "none"
    /\ tools = {}
    /\ initialized = FALSE
    /\ catalog_requests = 0
    /\ runs_on_connection = 0
    /\ serverUp = FALSE
    /\ run_pc = "idle"
    /\ query = ""
    /\ max_iters = 0
    /\ iteration = 0
    /\ messages = <<>>
    /\ sources = NoSources
    /\ tool_calls = <<>>
    /\ tool_idx = 1
    /\ inflight = Idle
    /\ answer = <<>>
    /\ raised = "none"
    /\ completion_calls = 0
    /\ server_calls = 0

NoFixture == [kind |-> "none"]
NoOutcome == [kind |-> "none"]

\* the agent program: no traversal fixture is in play
Init ==
    /\ AgentInit
    /\ fixture = NoFixture
    /\ outcome = NoOutcome

\* ------------------------------------------------------------ main, connect
\* MCPAgent.connect as called by main; failsAt names the await that raises
ConnectOutcomes == {"ok", "stdio_enter", "session_enter", "initialize", "list_tools"}

\* variant of Connect whose except clause misses the raise: main goes on to the
\* runs after a failed connect
Connect_SwallowsFailure(failsAt) ==
    /\ main_pc = "connect"
    /\ stdio_context' = IF failsAt = "stdio_enter" THEN "created" ELSE "entered"
    /\ session' = CASE failsAt = "stdio_enter" -> "none"
                    [] failsAt = "session_enter" -> "created"
                    [] OTHER -> "entered"
    /\ serverUp' = (failsAt # "stdio_enter")
    /\ initialized' = (failsAt \in {"list_tools", "ok"})
    /\ catalog_requests' = IF failsAt \in {"list_tools", "ok"}
                           THEN catalog_requests + 1 ELSE catalog_requests
    /\ tools' = IF failsAt = "ok" THEN tool_handlers ELSE {}
    /\ main_pc' = "test_a"
    /\ UNCHANGED <<runs_on_connection, run_pc, runVars>>
    /\ UNCHANGED traversalVars

Connect(failsAt) ==
    /\ main_pc = "connect"
    /\ stdio_context' = IF failsAt = "stdio_enter" THEN "created" ELSE "entered"
    /\ session' = CASE failsAt = "stdio_enter" -> "none"
                    [] failsAt = "session_enter" -> "created"
                    [] OTHER -> "entered"
    /\ serverUp' = (failsAt # "stdio_enter")
    /\ initialized' = (failsAt \in {"list_tools", "ok"})
    /\ catalog_requests' = IF failsAt \in {"list_tools", "ok"}
                           THEN catalog_requests + 1 ELSE catalog_requests
    /\ tools' = IF failsAt = "ok" THEN tool_handlers ELSE {}
    /\ main_pc' = IF failsAt = "ok" THEN "test_a" ELSE "close"
    /\ UNCHANGED <<runs_on_connection, run_pc, runVars>>
    /\ UNCHANGED traversalVars

\* MCPAgent.close as called from main's finally; raisesAt names the __aexit__
\* that raises
CloseOutcomes == {"ok", "session_exit", "stdio_exit"}

Close(raisesAt) ==
    /\ main_pc = "close"
    /\ raisesAt = "session_exit" => session # "none"
    /\ raisesAt = "stdio_exit" => stdio_context # "none"
    /\ session' = IF session = "none" THEN "none"
                  ELSE IF raisesAt = "session_exit" THEN "exit_failed" ELSE "exited"
    /\ stdio_context' = IF stdio_context = "none" \/ raisesAt = "session_exit"
                        THEN stdio_context
                        ELSE IF raisesAt = "stdio_exit" THEN "exit_failed" ELSE "exited"
    /\ serverUp' = IF stdio_context' = "exited" THEN FALSE ELSE serverUp
    /\ main_pc' = "done"
    /\ UNCHANGED <<tools, initialized, catalog_requests, runs_on_connection, run_pc,
                   runVars>>
    /\ UNCHANGED traversalVars

\* --------------------------------------------------------------------- run
\* test_a / test_b call agent.run; the caller chooses max_iters
RunStart(m) ==
    /\ main_pc \in {"test_a", "test_b"}
    /\ run_pc = "idle"
    /\ query' = Queries[main_pc]
    /\ max_iters' = m
    /\ messages' = <<[role |-> "system", content |-> SYSTEM_PROMPT],
                     [role |-> "user", content |-> <<Queries[main_pc]>>]>>
    /\ sources' = NoSources
    /\ iteration' = 0
    /\ tool_calls' = <<>>
    /\ tool_idx' = 1
    /\ inflight' = Idle
    /\ answer' = <<>>
    /\ raised' = "none"
    /\ completion_calls' = 0
    /\ server_calls' = 0
    /\ run_pc' = "loop"
    /\ runs_on_connection' = runs_on_connection + 1
    /\ UNCHANGED <<main_pc, stdio_context, session, tools, initialized,
                   catalog_requests, serverUp>>
    /\ UNCHANGED traversalVars

\* off-by-one variant of InRange: the loop body runs once more
InRange_OffByOne(i, n) == i <= n

\* for iteration in range(max_iters): the loop body runs for this iteration
InRange(i, n) == i < n

\* the completion call raises: the except clause returns
\* variant of CompletionFails in which the exception leaves run
CompletionFails_Propagates ==
    /\ run_pc = "loop"
    /\ InRange(iteration, max_iters)
    /\ completion_calls' = completion_calls + 1
    /\ raised' = "completion"
    /\ run_pc' = "propagated"
    /\ UNCHANGED <<main_pc, connVars, serverUp, query, max_iters, iteration, messages,
                   sources, tool_calls, tool_idx, inflight, answer, server_calls>>
    /\ UNCHANGED traversalVars

\* the completion service call raises
CompletionFails ==
    /\ run_pc = "loop"
    /\ InRange(iteration, max_iters)
    /\ completion_calls' = completion_calls + 1
    /\ raised' = "completion"
    /\ answer' = ErrorAnswer(CompletionErrorMessage)
    /\ run_pc' = "returned"
    /\ UNCHANGED <<main_pc, connVars, serverUp, query, max_iters, iteration, messages,
                   sources, tool_calls, tool_idx, inflight, server_calls>>
    /\ UNCHANGED traversalVars

\* variant of CompletionFinal that misses the return and goes on looping
CompletionFinal_NoReturn(content) ==
    /\ run_pc = "loop"
    /\ InRange(iteration, max_iters)
    /\ completion_calls' = completion_calls + 1
    /\ messages' = Append(messages, [role |-> "assistant", content |-> content])
    /\ tool_calls' = <<>>
    /\ iteration' = iteration + 1
    /\ UNCHANGED <<main_pc, connVars, serverUp, run_pc, query, max_iters, sources,
                   tool_idx, inflight, answer, raised, server_calls>>
    /\ UNCHANGED traversalVars

\* the completion call returns a message without tool calls
CompletionFinal(content) ==
    /\ run_pc = "loop"
    /\ InRange(iteration, max_iters)
    /\ completion_calls' = completion_calls + 1
    /\ messages' = Append(messages, [role |-> "assistant", content |-> content])
    /\ tool_calls' = <<>>
    /\ answer' = FinalAnswer(content, sources)
    /\ run_pc' = "returned"
    /\ UNCHANGED <<main_pc, connVars, serverUp, query, max_iters, iteration, sources,
                   tool_idx, inflight, raised, server_calls>>
    /\ UNCHANGED traversalVars

\* the completion call returns a message with tool calls
CompletionToolCalls(reqs) ==
    /\ run_pc = "loop"
    /\ InRange(iteration, max_iters)
    /\ RequestsIssued(messages) + Len(reqs) <= MaxRequests
    /\ completion_calls' = completion_calls + 1
    /\ tool_calls' = [i \in 1..Len(reqs) |->
                        [id |-> <<completion_calls + 1, i>>, type |-> "function",
                         function |-> reqs[i]]]
    /\ messages' = Append(messages, [role |-> "assistant", content |-> NoContent,
                                     tool_calls |-> tool_calls'])
    /\ tool_idx' = 1
    /\ run_pc' = "dispatch"
    /\ UNCHANGED <<main_pc, connVars, serverUp, query, max_iters, iteration, sources,
                   inflight, answer, raised, server_calls>>
    /\ UNCHANGED traversalVars

\* the for loop over range(max_iters) is exhausted
MaxItersReached ==
    /\ run_pc = "loop"
    /\ ~InRange(iteration, max_iters)
    /\ answer' = MaxItersSentinel
    /\ run_pc' = "returned"
    /\ UNCHANGED <<main_pc, connVars, serverUp, query, max_iters, iteration, messages,
                   sources, tool_calls, tool_idx, inflight, raised, completion_calls,
                   server_calls>>
    /\ UNCHANGED traversalVars

\* variant of CurrentToolCall that walks the requests from the last to the first
CurrentToolCall_Reversed == tool_calls[Len(tool_calls) - tool_idx + 1]

\* the tool_call the for loop over message.tool_calls is at
CurrentToolCall == tool_calls[tool_idx]

\* variant of ToolMessage that keys the message by the position alone
ToolMessage_PositionId(tool_call, result) ==
    [role |-> "tool", tool_call_id |-> <<0, tool_idx>>, content |-> result]

\* the message run appends for a tool result
ToolMessage(tool_call, result) ==
    [role |-> "tool", tool_call_id |-> tool_call.id, content |-> result]

\* one pass of the for loop over message.tool_calls, up to the await in _call
ToolCallStart ==
    /\ run_pc = "dispatch"
    /\ LET tool_call == CurrentToolCall
           decoded == JsonLoadsArgs(tool_call.function.arguments)
       IN IF ~decoded.ok
          THEN /\ raised' = "arguments"
               /\ answer' = ErrorAnswer(decoded.error)
               /\ run_pc' = "returned"
               /\ UNCHANGED <<inflight, server_calls>>
          ELSE /\ server_calls' = server_calls + 1
               /\ inflight' = IF session = "entered" /\ serverUp
                              THEN [kind |-> "request", name |-> tool_call.function.name,
                                    arguments |-> decoded.value]
                              ELSE [kind |-> "failed", error |-> TransportErrorMessage]
               /\ run_pc' = "awaiting_tool"
               /\ UNCHANGED <<answer, raised>>
    /\ UNCHANGED <<main_pc, connVars, serverUp, query, max_iters, iteration, messages,
                   sources, tool_calls, tool_idx, completion_calls>>
    /\ UNCHANGED traversalVars

\* the server handles the request: call_tool under the SDK's decorator
ServerCallTool(up) ==
    /\ inflight.kind = "request"
    /\ serverUp
    /\ up \in UpstreamOutcomes(inflight.name)
    /\ inflight' = [kind |-> "reply",
                    reply |-> ServerReply(inflight.name, inflight.arguments, up)]
    /\ UNCHANGED <<main_pc, connVars, serverUp, run_pc, query, max_iters, iteration,
                   messages, sources, tool_calls, tool_idx, answer, raised,
                   completion_calls, server_calls>>
    /\ UNCHANGED traversalVars

\* the server process dies or the pipe to it breaks; a pending call raises
ServerCrash ==
    /\ serverUp
    /\ main_pc \in {"test_a", "test_b"}
    /\ serverUp' = FALSE
    /\ inflight' = IF inflight.kind = "request"
                   THEN [kind |-> "failed", error |-> TransportErrorMessage]
                   ELSE inflight
    /\ UNCHANGED <<main_pc, connVars, run_pc, query, max_iters, iteration, messages,
                   sources, tool_calls, tool_idx, answer, raised, completion_calls,
                   server_calls>>
    /\ UNCHANGED traversalVars

AttributeErrorMessage == "'int' object has no attribute 'get'"

\* variant of MoreToolCalls that leaves the for loop after its first pass
MoreToolCalls_StopAfterFirst == FALSE

\* the for loop over message.tool_calls has a request left after this one
MoreToolCalls == tool_idx < Len(tool_calls)

\* the rest of the pass: _call returns, sources are tracked, the tool message
\* is appended; after the last pass the outer loop goes on
ToolCallFinish ==
    /\ run_pc = "awaiting_tool"
    /\ inflight.kind \in {"reply", "failed"}
    /\ LET tool_call == CurrentToolCall
           function_name == tool_call.function.name
           function_args == JsonLoadsArgs(tool_call.function.arguments).value
           result == IF inflight.kind = "failed" THEN CallFailed(inflight.error)
                     ELSE CallResult(inflight.reply)
       IN IF ~result.isDict
          THEN /\ raised' = "result"
               /\ answer' = ErrorAnswer(AttributeErrorMessage)
               /\ run_pc' = "returned"
               /\ UNCHANGED <<sources, messages, tool_idx, iteration>>
          ELSE /\ sources' = TrackSources(sources, function_name, function_args,
                                          result.value)
               /\ messages' = Append(messages, ToolMessage(tool_call, result.value))
               /\ IF MoreToolCalls
                  THEN /\ tool_idx' = tool_idx + 1
                       /\ run_pc' = "dispatch"
                       /\ UNCHANGED iteration
                  ELSE /\ iteration' = iteration + 1
                       /\ run_pc' = "loop"
                       /\ UNCHANGED tool_idx
               /\ UNCHANGED <<answer, raised>>
    /\ inflight' = Idle
    /\ UNCHANGED <<main_pc, connVars, serverUp, query, max_iters, tool_calls,
                   completion_calls, server_calls>>
    /\ UNCHANGED traversalVars

\* run's return value reaches test_a / test_b, which prints it
RunReturn ==
    /\ run_pc = "returned"
    /\ run_pc' = "idle"
    /\ main_pc' = IF main_pc = "test_a" THEN "test_b" ELSE "close"
    /\ UNCHANGED <<connVars, serverUp, runVars>>
    /\ UNCHANGED traversalVars

Next ==
    \/ \E failsAt \in ConnectOutcomes : Connect(failsAt)
    \/ \E raisesAt \in CloseOutcomes : Close(raisesAt)
    \/ \E m \in 0..MaxIters : RunStart(m)
    \/ CompletionFails
    \/ \E content \in FinalContents : CompletionFinal(content)
    \/ \E reqs \in SeqsUpTo(RequestChoices, MaxRequests) : CompletionToolCalls(reqs)
    \/ MaxItersReached
    \/ ToolCallStart
    \/ \E up \in {"ok", "non200", "empty", "raise", "raise0"} : ServerCallTool(up)
    \/ ServerCrash
    \/ ToolCallFinish
    \/ RunReturn

Spec == Init /\ [][Next]_vars


\* the steps run takes once its awaits complete: the event loop resumes the
\* coroutine whenever the completion call or the tool call it awaits is done
RunStep ==
    \/ CompletionFails
    \/ \E content \in FinalContents : CompletionFinal(content)
    \/ \E reqs \in SeqsUpTo(RequestChoices, MaxRequests) : CompletionToolCalls(reqs)
    \/ MaxItersReached
    \/ ToolCallStart
    \/ \E up \in {"ok", "non200", "empty", "raise", "raise0"} : ServerCallTool(up)
    \/ ToolCallFinish

\* the program when every completion call and every tool call returns or fails
SpecLive == Init /\ [][Next]_vars /\ WF_vars(RunStep)

agentVars == <<main_pc, connVars, serverUp, run_pc, runVars>>

\* --------------------------------------------------- replies to the client
\* text payloads of replies: dumps of mappings, a text that decodes to a
\* number, texts that do not decode
ReplyPayloads ==
    {JsonDumps([success |-> TRUE, content |-> "page text"]),
     JsonDumps([success |-> FALSE]),
     JsonDumps([success |-> FALSE, error |-> UpstreamErrorText]),
     RawText(KeyError0Message),
     RawText(UnknownToolMessage),
     RawText(ConnectionErrorMessage)}

\* the replies session.call_tool can return, with up to max content items
Replies(max) ==
    {[isError |-> e, content |-> c] :
        e \in BOOLEAN, c \in UNION {[1..k -> ReplyPayloads] : k \in 0..max}}

InitCall ==
    /\ AgentInit
    /\ fixture \in {[kind |-> "reply", reply |-> r] : r \in Replies(MaxContents)}
    /\ outcome = NoOutcome

\* _call handles the reply that session.call_tool returned
CallReturns ==
    /\ fixture.kind = "reply"
    /\ outcome = NoOutcome
    /\ outcome' = [kind |-> "call", result |-> CallResult(fixture.reply)]
    /\ UNCHANGED <<fixture, agentVars>>

NextCall == CallReturns

SpecCall == InitCall /\ [][NextCall]_vars

\* --------------------------------------------------- repository flattening
\* item["name"] of the entries of a repository tree, by entry number
RepoNames == <<"a.txt", "dir", "b.txt", "sub", "c.txt", "d.txt", "e.txt">>

\* the path arguments github_list_repo is called with
RootPaths == {<<>>, <<"src">>}

\* parent[i] is the directory entry i lies in; 0 is the directory at the root
\* path; the contents API lists the entries of a directory by entry number
RECURSIVE RepoTrees(_)
RepoTrees(n) ==
    IF n = 0 THEN {[n |-> 0, parent |-> <<>>, type |-> <<>>]}
    ELSE {[n |-> n, parent |-> Append(t.parent, p), type |-> Append(t.type, ty)] :
            t \in RepoTrees(n - 1),
            p \in 0..(n - 1),
            ty \in {"file", "dir"}}

WellFormedRepo(t) == \A i \in 1..t.n : t.parent[i] # 0 => t.type[t.parent[i]] = "dir"

RepoDirs(t) == {0} \cup {i \in 1..t.n : t.type[i] = "dir"}

\* repository trees of up to max entries, the root path of the call, and the
\* directories whose listing the contents API does not answer with status 200
\* (at most one)
RepoFixtures(max) ==
    {[kind |-> "repo", n |-> t.n, parent |-> t.parent, type |-> t.type,
      root |-> root, fails |-> fails] :
        t \in {x \in UNION {RepoTrees(n) : n \in 0..max} : WellFormedRepo(x)},
        root \in RootPaths,
        fails \in {{}} \cup {{d} : d \in 0..max}}

\* the path of entry i in the repository
RECURSIVE TruePath(_, _)
TruePath(t, i) ==
    IF i = 0 THEN t.root
    ELSE LET dir == TruePath(t, t.parent[i])
         IN IF dir = <<>> THEN <<RepoNames[i]>> ELSE dir \o <<"/", RepoNames[i]>>

\* entries of directory d in listing order
Entries(t, d) == SelectSeq([i \in 1..t.n |-> i], LAMBDA i : t.parent[i] = d)

\* GET /repos/REPO/contents/{path}
Contents(t, path) ==
    LET D == {d \in RepoDirs(t) : TruePath(t, d) = path}
    IN IF D = {} THEN [status_code |-> 404, text |-> "Not Found"]
       ELSE LET d == CHOOSE x \in D : TRUE
                es == Entries(t, d)
            IN IF d \in t.fails
               THEN [status_code |-> 500, text |-> UpstreamErrorText]
               ELSE [status_code |-> 200,
                     json |-> [k \in 1..Len(es) |->
                                 [name |-> RepoNames[es[k]], type |-> t.type[es[k]]]]]

\* str.lstrip("/") on a token sequence
RECURSIVE LStripSlash(_)
LStripSlash(s) == IF s # <<>> /\ Head(s) = "/" THEN LStripSlash(Tail(s)) ELSE s

\* variant of full_path that keeps the entry's name only
full_path_NameOnly(path, name) == <<name>>

\* full_path of github_list_repo
full_path(path, name) == LStripSlash(path \o <<"/", name>>)

\* github_list_repo(path) against tree t; ListItems is its for loop
RECURSIVE ListRepo(_, _), ListItems(_, _, _)
ListRepo(t, path) ==
    LET r == Contents(t, path)
    IN IF r.status_code # 200 THEN [success |-> FALSE, error |-> r.text]
       ELSE [success |-> TRUE, items |-> ListItems(t, path, r.json)]

ListItems(t, path, items) ==
    IF items = <<>> THEN <<>>
    ELSE LET item == Head(items)
             fp == full_path(path, item.name)
             here == IF item.type = "file"
                     THEN <<[name |-> item.name, path |-> fp, type |-> "file"]>>
                     ELSE LET sub == ListRepo(t, fp)
                          IN IF sub.success THEN sub.items ELSE <<>>
         IN here \o ListItems(t, path, Tail(items))

InitRepo ==
    /\ AgentInit
    /\ fixture \in {f \in RepoFixtures(MaxRepoNodes) : f.fails \subseteq RepoDirs(f)}
    /\ outcome = NoOutcome

\* the server runs github_list_repo on the fixture
ListRepoCall ==
    /\ fixture.kind = "repo"
    /\ outcome = NoOutcome
    /\ outcome' = [kind |-> "repo", result |-> ListRepo(fixture, fixture.root)]
    /\ UNCHANGED <<fixture, agentVars>>

NextRepo == ListRepoCall

SpecRepo == InitRepo /\ [][NextRepo]_vars

\* ------------------------------------------------------ document traversal
\* the depth bound of walk
MaxDepth == 3

\* plain_text of the text run of a block, by block number
BlockTexts == <<"t1", "t2", "t3", "t4", "t5", "t6", "t7", "t8">>

\* parent[i] is the block (0: the page) block i is a child of; the children
\* of a block are listed by block number
RECURSIVE DocTrees(_)
DocTrees(n) ==
    IF n = 0 THEN {[n |-> 0, parent |-> <<>>, text |-> <<>>]}
    ELSE {[n |-> n, parent |-> Append(t.parent, p), text |-> Append(t.text, tx)] :
            t \in DocTrees(n - 1),
            p \in {q \in 0..(n - 1) : q >= n - 2},
            tx \in BOOLEAN}

\* a document, which of its blocks carry text, and the blocks whose children
\* list the API does not answer with status 200 (at most one)
DocFixtures(max) ==
    {[kind |-> "doc", n |-> t.n, parent |-> t.parent, text |-> t.text, fails |-> fails] :
        t \in UNION {DocTrees(n) : n \in 0..max},
        fails \in {{}} \cup {{d} : d \in 0..max}}

Children(doc, b) == SelectSeq([i \in 1..doc.n |-> i], LAMBDA i : doc.parent[i] = b)

\* GET /v1/blocks/{id}/children
BlockChildren(doc, id) ==
    IF id \in doc.fails THEN [status_code |-> 500]
    ELSE LET cs == Children(doc, id)
         IN [status_code |-> 200,
             results |-> [k \in 1..Len(cs) |->
                 [id |-> cs[k],
                  has_children |-> Children(doc, cs[k]) # <<>>,
                  rich_text |-> IF doc.text[cs[k]]
                                THEN <<[plain_text |-> <<BlockTexts[cs[k]]>>]>>
                                ELSE <<>>]]]

\* variant of DepthExceeded that stops one level later
DepthExceeded_OneLater(depth) == depth > MaxDepth + 1

\* the depth test of walk
DepthExceeded(depth) == depth > MaxDepth

NoText == [txt |-> <<>>, fetched |-> <<>>]

\* variant of Fragments that puts the text of a block after that of its children
Fragments_ChildrenFirst(own, sub, rest) == sub \o own \o rest

\* txt after one pass of the for loop of walk: the block's own text is
\* appended, then the list of its children is spliced in, then the later
\* blocks follow
Fragments(own, sub, rest) == own \o sub \o rest

\* walk(url, depth) of notion_get_page_content; WalkBlocks is its for loop.
\* txt is the list walk returns; fetched logs the requests.get calls made, as
\* the block whose children were asked for and the depth of the call
RECURSIVE walk(_, _, _), WalkBlocks(_, _, _)
walk(doc, id, depth) ==
    IF DepthExceeded(depth) THEN NoText
    ELSE LET r == BlockChildren(doc, id)
             get == <<[id |-> id, depth |-> depth]>>
         IN IF r.status_code # 200 THEN [txt |-> <<>>, fetched |-> get]
            ELSE LET w == WalkBlocks(doc, r.results, depth)
                 IN [txt |-> w.txt, fetched |-> get \o w.fetched]

WalkBlocks(doc, blocks, depth) ==
    IF blocks = <<>> THEN NoText
    ELSE LET b == Head(blocks)
             rich == b.rich_text
             own == IF rich # <<>>
                    THEN <<Join(" ", [k \in 1..Len(rich) |-> rich[k].plain_text])>>
                    ELSE <<>>
             sub == IF b.has_children THEN walk(doc, b.id, depth + 1) ELSE NoText
             rest == WalkBlocks(doc, Tail(blocks), depth)
         IN [txt |-> Fragments(own, sub.txt, rest.txt),
             fetched |-> sub.fetched \o rest.fetched]

\* notion_get_page_content(page_id) against document doc
GetPageContent(doc) ==
    LET content == walk(doc, 0, 0).txt
    IN IF content # <<>> THEN [success |-> TRUE, content |-> Join("\n", content)]
       ELSE [success |-> FALSE]

InitDoc ==
    /\ AgentInit
    /\ fixture \in {f \in DocFixtures(MaxDocNodes) :
                      \A d \in f.fails : d = 0 \/ Children(f, d) # <<>>}
    /\ outcome = NoOutcome

\* the server runs notion_get_page_content on the fixture
GetPageContentCall ==
    /\ fixture.kind = "doc"
    /\ outcome = NoOutcome
    /\ outcome' = [kind |-> "doc", result |-> GetPageContent(fixture),
                   fetched |-> walk(fixture, 0, 0).fetched]
    /\ UNCHANGED <<fixture, agentVars>>

NextDoc == GetPageContentCall

SpecDoc == InitDoc /\ [][NextDoc]_vars

\* ------------------------------------------------- embedded-table discovery
\* default of the max_depth parameter of find_databases_recursive
max_depth == 3

\* block.get("id") of the blocks of a document, by block number
BlockIds == <<"b1", "b2", "b3", "b4", "b5", "b6", "b7", "b8">>

\* the page_id the tool is called with
PageId == "page"

\* child_database.title of the blocks, by block number
DbTitles == <<"T1", "T2", "T3", "T4", "T5", "T6", "T7", "T8">>

\* linked_database.database_id of the blocks, by block number
LinkedIds == <<"L1", "L2", "L3", "L4", "L5", "L6", "L7", "L8">>

BlockTypes == {"paragraph", "child_database", "linked_database"}

\* parent[i] is the block (0: the page) block i is a child of; the children
\* of a block are listed by block number
RECURSIVE DbDocTrees(_)
DbDocTrees(n) ==
    IF n = 0 THEN {[n |-> 0, parent |-> <<>>, type |-> <<>>]}
    ELSE {[n |-> n, parent |-> Append(t.parent, p), type |-> Append(t.type, ty)] :
            t \in DbDocTrees(n - 1),
            p \in {q \in 0..(n - 1) : q >= n - 2},
            ty \in BlockTypes}

\* documents of up to max blocks and the blocks whose children list the API
\* does not deliver (a status other than 200, or requests.get raising)
DbFixtures(max) ==
    {[kind |-> "dbdoc", n |-> t.n, parent |-> t.parent, type |-> t.type,
      fails |-> fails] :
        t \in UNION {DbDocTrees(n) : n \in 0..max},
        fails \in {{}} \cup {{d} : d \in 0..max}}

\* the block an id names
NodeOf(doc, id) ==
    IF id = PageId THEN 0 ELSE CHOOSE i \in 1..doc.n : BlockIds[i] = id

\* a block as the API returns it
BlockObject(doc, i) ==
    LET base == [id |-> BlockIds[i], type |-> doc.type[i],
                 has_children |-> Children(doc, i) # <<>>]
    IN CASE doc.type[i] = "child_database" ->
              [id |-> base.id, type |-> base.type, has_children |-> base.has_children,
               child_database |-> [title |-> DbTitles[i]]]
         [] doc.type[i] = "linked_database" ->
              [id |-> base.id, type |-> base.type, has_children |-> base.has_children,
               linked_database |-> [database_id |-> LinkedIds[i]]]
         [] OTHER -> base

\* GET /v1/blocks/{block_id}/children with page_size 100
DbBlockChildren(doc, block_id) ==
    LET b == NodeOf(doc, block_id)
    IN IF b \in doc.fails THEN [status_code |-> 500]
       ELSE LET cs == Children(doc, b)
            IN [status_code |-> 200,
                results |-> [k \in 1..Len(cs) |-> BlockObject(doc, cs[k])]]

\* variant of DbDepthExceeded that stops one level later
DbDepthExceeded_OneLater(depth) == depth > max_depth + 1

\* the depth test of find_databases_recursive
DbDepthExceeded(depth) == depth > max_depth

\* find_databases_recursive(block_id, depth); FindInBlocks is its for loop
RECURSIVE find_databases_recursive(_, _, _), FindInBlocks(_, _, _)
find_databases_recursive(doc, block_id, depth) ==
    IF DbDepthExceeded(depth) THEN <<>>
    ELSE LET r == DbBlockChildren(doc, block_id)
         IN IF r.status_code # 200 THEN <<>>
            ELSE FindInBlocks(doc, r.results, depth)

FindInBlocks(doc, blocks, depth) ==
    IF blocks = <<>> THEN <<>>
    ELSE LET block == Head(blocks)
             block_id_inner == block.id
             own == CASE block.type = "child_database" ->
                           <<[database_id |-> block_id_inner,
                              title |-> DictGet(block.child_database, "title",
                                                "Untitled Database"),
                              type |-> "child_database"]>>
                      [] block.type = "linked_database" ->
                           <<[database_id |-> DictGet(block.linked_database,
                                                      "database_id", block_id_inner),
                              title |-> "Linked Database",
                              type |-> "linked_database"]>>
                      [] OTHER -> <<>>
             child_dbs == IF block.has_children
                          THEN find_databases_recursive(doc, block_id_inner, depth + 1)
                          ELSE <<>>
         IN own \o child_dbs \o FindInBlocks(doc, Tail(blocks), depth)

NoDatabaseMessage == "No inline or linked database found in this page"

\* variant of first_db that promotes the last database found
first_db_Last(databases) == databases[Len(databases)]

\* first_db of notion_get_db_from_page
first_db(databases) == databases[1]

\* notion_get_db_from_page(page_id) against document doc
GetDbFromPage(doc) ==
    LET databases == find_databases_recursive(doc, PageId, 0)
    IN IF databases # <<>>
       THEN [success |-> TRUE,
             database_id |-> first_db(databases).database_id,
             title |-> first_db(databases).title,
             type |-> first_db(databases).type,
             total_found |-> Len(databases),
             all_databases |-> databases]
       ELSE [success |-> FALSE, error |-> NoDatabaseMessage]

InitDb ==
    /\ AgentInit
    /\ fixture \in {f \in DbFixtures(MaxDbNodes) :
                      \A d \in f.fails : d = 0 \/ Children(f, d) # <<>>}
    /\ outcome = NoOutcome

\* the results of the last two calls, the newest last
LastTwo(results, r) ==
    IF Len(results) < 2 THEN Append(results, r) ELSE <<results[2], r>>

\* variant of GetDbFromPageCall after which a failing fetch has recovered
GetDbFromPageCall_Recovers ==
    /\ fixture.kind = "dbdoc"
    /\ outcome' = [kind |-> "db",
                   results |-> LastTwo(IF outcome = NoOutcome THEN <<>>
                                       ELSE outcome.results, GetDbFromPage(fixture))]
    /\ outcome' # outcome
    /\ fixture' = [fixture EXCEPT !.fails = {}]
    /\ UNCHANGED agentVars

\* the server runs notion_get_db_from_page on the fixture, any number of times
GetDbFromPageCall ==
    /\ fixture.kind = "dbdoc"
    /\ outcome' = [kind |-> "db",
                   results |-> LastTwo(IF outcome = NoOutcome THEN <<>>
                                       ELSE outcome.results, GetDbFromPage(fixture))]
    /\ outcome' # outcome
    /\ UNCHANGED <<fixture, agentVars>>

NextDb == GetDbFromPageCall

SpecDb == InitDb /\ [][NextDb]_vars

\* ------------------------------------------------------ claims: vocabulary
HasToolCalls(m) == m.role = "assistant" /\ "tool_calls" \in DOMAIN m
IsFinalMessage(m) == m.role = "assistant" /\ "tool_calls" \notin DOMAIN m
IsToolMessage(m) == m.role = "tool"

\* a tool result envelope that says failure and says why
IsFailureEnvelope(c) ==
    /\ "success" \in DOMAIN c
    /\ c.success = FALSE
    /\ "error" \in DOMAIN c

\* every invocation request emitted so far in the run
AllRequests == UNION {Range(messages[i].tool_calls) :
                        i \in {j \in 1..Len(messages) : HasToolCalls(messages[j])}}
RequestOf(id) == CHOOSE r \in AllRequests : r.id = id

\* completion responses received so far in the run
Responses == {i \in 1..Len(messages) : messages[i].role = "assistant"}

\* citation footers in an answer
FooterCount(ans) == Cardinality({i \in 1..Len(ans) : ans[i] = SourcesHeader})

\* the run's first completion response carried no tool invocation request
FirstResponseFinal == Len(messages) >= 3 /\ IsFinalMessage(messages[3])

\* ---------------------------------------------------------------------- C1
\* C1: in every state of every run, the number of completion-service calls
\* made by the run is at most max_iters (none at all when max_iters = 0).
C1_CompletionCallsWithinBudget == completion_calls <= max_iters

\* a run that used its whole budget of at least two calls
C1_Witness ==
    /\ run_pc = "returned"
    /\ max_iters >= 2
    /\ completion_calls = max_iters

\* ---------------------------------------------------------------------- C2
\* C2 (as claimed): a run whose max_iters completion responses all carried
\* tool invocation requests has made exactly max_iters completion calls and
\* returns the degraded sentinel.
C2_AllToolTurnsEndInSentinel ==
    (/\ run_pc = "returned"
     /\ Cardinality(Responses) = max_iters
     /\ \A i \in Responses : HasToolCalls(messages[i]))
    => (completion_calls = max_iters /\ answer = MaxItersSentinel)

\* ---------------------------------------------------------------------- C3
\* C3: when the first completion response has no tool invocation request, the
\* run has returned after exactly one completion call and no tool invocation,
\* and its answer holds at most one citation footer.
C3_FirstFinalResponseEndsRun ==
    FirstResponseFinal =>
        /\ run_pc \in {"returned", "idle"}
        /\ completion_calls = 1
        /\ server_calls = 0
        /\ Len(messages) = 3
        /\ FooterCount(answer) <= 1

C3_Witness == FirstResponseFinal /\ run_pc = "returned" /\ answer # NoResponse

\* ---------------------------------------------------------------------- C4
\* C4 (as claimed): when the completion call raised, the string run returns is
\* the failure's message verbatim.
C4_FailureMessageVerbatim ==
    (run_pc = "returned" /\ raised = "completion") => answer = <<CompletionErrorMessage>>

\* C4 (amended): when the completion call raised, the run has returned at once
\* (the failed call is its last completion call and no tool invocation is
\* pending) and the returned string is the fixed prefix "Error occurred: "
\* followed by the failure's message.
C4_CompletionFailureAborts ==
    raised = "completion" =>
        /\ run_pc \in {"returned", "idle"}
        /\ completion_calls = Cardinality(Responses) + 1
        /\ inflight.kind = "none"
        /\ answer = <<ErrorPrefix, CompletionErrorMessage>>

\* the completion call fails after a turn of tool invocations
C4_Witness == run_pc = "returned" /\ raised = "completion" /\ completion_calls >= 2

\* ---------------------------------------------------------------------- C5
\* C5 (as claimed): argument text that is not valid JSON never ends the run;
\* once the turn's requests are dispatched, every request of the turn with
\* such text has a tool message with success=false and the decode error.
C5_MalformedArgumentsAreFailSoft ==
    /\ ~(run_pc = "returned" /\ raised = "arguments")
    /\ (run_pc = "loop" /\ tool_calls # <<>>) =>
          \A i \in 1..Len(tool_calls) :
              ~JsonLoadsArgs(tool_calls[i].function.arguments).ok =>
                  \E j \in 1..Len(messages) :
                      /\ IsToolMessage(messages[j])
                      /\ messages[j].tool_call_id = tool_calls[i].id
                      /\ IsFailureEnvelope(messages[j].content)

\* ---------------------------------------------------------------------- C6
\* C6 (as claimed): the tool message appended for a request that names a tool
\* the server does not register is a failed result: success=false with an
\* error string.
C6_UnknownToolYieldsFailure ==
    \A j \in 1..Len(messages) :
        (IsToolMessage(messages[j])
         /\ RequestOf(messages[j].tool_call_id).function.name \notin tool_handlers)
        => IsFailureEnvelope(messages[j].content)

\* ---------------------------------------------------------------------- C7
\* C7 (as claimed): a run returns only on a completion response without tool
\* invocation requests, on a completion-service failure or on an exhausted
\* budget; nothing raised while dispatching tool invocations ends it.
C7_OnlyThreeWaysToEnd ==
    run_pc = "returned" =>
        \/ raised = "completion"
        \/ raised = "none" /\ answer = MaxItersSentinel
        \/ raised = "none" /\ IsFinalMessage(messages[Len(messages)])

\* ---------------------------------------------------------------------- C8
\* C8 (as claimed): when the client's call to the server raises, the run
\* aborts and returns the failure's message verbatim.
C8_TransportFailureAborts ==
    [][(run_pc = "awaiting_tool" /\ inflight.kind = "failed" /\ run_pc' # run_pc)
        => (run_pc' = "returned" /\ answer' = <<inflight.error>>)]_vars

\* C8 (amended): when the client's call to the server raises, the run does
\* not abort: a tool message holding success=false and the failure's message
\* is appended for that request, nothing is returned, and the run goes on with
\* the next request or the next iteration.
C8_TransportFailureIsFailSoft ==
    [][(run_pc = "awaiting_tool" /\ inflight.kind = "failed" /\ run_pc' # run_pc)
        => /\ run_pc' \in {"dispatch", "loop"}
           /\ answer' = answer
           /\ raised' = "none"
           /\ messages' = Append(messages,
                                 [role |-> "tool",
                                  tool_call_id |-> tool_calls[tool_idx].id,
                                  content |-> [success |-> FALSE,
                                               error |-> inflight.error]])]_vars

\* a failed call's result is in the conversation and the run is at its next
\* completion call
C8_Witness ==
    /\ run_pc = "loop"
    /\ InRange(iteration, max_iters)
    /\ \E j \in 1..Len(messages) :
          /\ IsToolMessage(messages[j])
          /\ IsFailureEnvelope(messages[j].content)
          /\ messages[j].content.error = TransportErrorMessage

\* ---------------------------------------------------------------------- C9
\* C9 (as claimed): when the handler call raised on the server, the step that
\* takes the reply appends a tool message with success=false and an error
\* string for the request, and the server is still up.
C9_HandlerExceptionYieldsFailure ==
    [][(/\ run_pc = "awaiting_tool"
        /\ inflight.kind = "reply"
        /\ inflight.reply.isError
        /\ tool_calls[tool_idx].function.name \in tool_handlers
        /\ run_pc' # run_pc)
        => /\ serverUp' = serverUp
           /\ Len(messages') = Len(messages) + 1
           /\ IsToolMessage(messages'[Len(messages')])
           /\ messages'[Len(messages')].tool_call_id = tool_calls[tool_idx].id
           /\ IsFailureEnvelope(messages'[Len(messages')].content)]_vars

\* --------------------------------------------------------------------- C10
\* C10 (as claimed): every tool result envelope in the conversation has a
\* boolean success field, and every envelope with success=false has an error
\* string.
C10_EnvelopeShape ==
    \A j \in 1..Len(messages) :
        IsToolMessage(messages[j]) =>
            /\ "success" \in DOMAIN messages[j].content
            /\ messages[j].content.success \in BOOLEAN
            /\ (messages[j].content.success = FALSE
                => "error" \in DOMAIN messages[j].content)

\* ------------------------------------------------- connection and dispatch
\* a context manager that was entered or created has had its __aexit__ awaited
ReleaseAttempted(cm) == cm \in {"none", "exited", "exit_failed"}

\* C11: when the program has ended, on whichever path, the release of the
\* client session and the release of the transport have both been carried out
C11_BothReleasedOnEveryExit ==
    main_pc = "done" => ReleaseAttempted(session) /\ ReleaseAttempted(stdio_context)

\* C12: a completion call or a tool invocation happens only on a connection
\* that was opened, initialised and whose tool catalog was fetched, and the
\* catalog is requested at most once per connection
C12_ConnectedBeforeFirstCall ==
    /\ catalog_requests <= 1
    /\ (run_pc # "idle" \/ completion_calls > 0 \/ server_calls > 0)
         => /\ initialized
            /\ catalog_requests = 1
            /\ tools = tool_handlers
            /\ stdio_context # "none"
            /\ session # "none"
    /\ run_pc # "idle" => stdio_context = "entered" /\ session = "entered"
    /\ main_pc = "connect" => completion_calls = 0 /\ server_calls = 0

C12_Witness ==
    /\ run_pc = "loop"
    /\ completion_calls >= 1
    /\ server_calls >= 1
    /\ catalog_requests = 1

\* the conversation a run starts with: the system instruction and its query
FreshConversation(q) ==
    <<[role |-> "system", content |-> SYSTEM_PROMPT],
      [role |-> "user", content |-> <<q>>]>>

\* C13 as stated: a run starts fresh and on a connection no other run has used
C13_RunsShareNothing ==
    [][(run_pc = "idle" /\ run_pc' # "idle")
         => /\ messages' = FreshConversation(Queries[main_pc])
            /\ sources' = NoSources
            /\ runs_on_connection = 0]_vars

\* position of the latest assistant message of the conversation (0 if none)
LastAssistant ==
    LET S == {i \in 1..Len(messages) : messages[i].role = "assistant"}
    IN IF S = {} THEN 0 ELSE CHOOSE i \in S : \A j \in S : j <= i

\* C14: within a turn the requests r1..rn are dispatched in order, the
\* dispatch of r(i+1) starts only after the tool message of r(i) was appended,
\* and a call is outstanding only while the run awaits it
C14_SequentialDispatch ==
    /\ inflight.kind # "none" => run_pc = "awaiting_tool"
    /\ run_pc \in {"dispatch", "awaiting_tool"}
         => LET a == LastAssistant
            IN /\ a > 0
               /\ HasToolCalls(messages[a])
               /\ messages[a].tool_calls = tool_calls
               /\ tool_idx \in 1..Len(tool_calls)
               /\ Len(messages) - a = tool_idx - 1
               /\ \A k \in 1..(tool_idx - 1) :
                     /\ IsToolMessage(messages[a + k])
                     /\ messages[a + k].tool_call_id = tool_calls[k].id
               /\ inflight.kind = "request"
                     => inflight.name = tool_calls[tool_idx].function.name

C14_Witness ==
    /\ run_pc = "awaiting_tool"
    /\ Len(tool_calls) = 2
    /\ tool_idx = 2
    /\ inflight.kind = "reply"
    /\ IsToolMessage(messages[Len(messages)])

\* C15: the id of each tool message is the id of a request of the nearest
\* assistant message before it, and only tool messages lie between the two
C15_ToolMessageAnswersNearestRequest ==
    \A j \in 1..Len(messages) :
        IsToolMessage(messages[j])
        => \E i \in 1..(j - 1) :
              /\ HasToolCalls(messages[i])
              /\ \A k \in (i + 1)..(j - 1) : IsToolMessage(messages[k])
              /\ \E r \in Range(messages[i].tool_calls) :
                    r.id = messages[j].tool_call_id

C15_Witness ==
    /\ Cardinality(Responses) = 2
    /\ \E j \in 1..Len(messages) :
          /\ IsToolMessage(messages[j])
          /\ j > LastAssistant
          /\ LastAssistant > 3

\* tool messages of the conversation
ToolMessages == {j \in 1..Len(messages) : IsToolMessage(messages[j])}

\* every request whose dispatch has begun and whose arguments decoded has had
\* one server call: one per tool message, one for the call awaited, one for
\* the call whose result ended the run; no request has two tool messages
DispatchedRequestsCalledOnce ==
    /\ server_calls = Cardinality(ToolMessages)
                        + (IF run_pc = "awaiting_tool" THEN 1 ELSE 0)
                        + (IF raised = "result" THEN 1 ELSE 0)
    /\ \A i, j \in ToolMessages :
          messages[i].tool_call_id = messages[j].tool_call_id => i = j

\* requests of the run whose argument text decodes
DecodableRequests == {r \in AllRequests : JsonLoadsArgs(r.function.arguments).ok}

\* C16: when the run has ended, the server has been called once for each
\* request of the run whose arguments decode, never zero times and never twice
C16_EveryDecodableRequestCalledOnce ==
    run_pc = "returned" => server_calls = Cardinality(DecodableRequests)

\* --------------------------------------------------------------- traversal
\* the directories above entry i, the root directory included
RECURSIVE RepoAncestors(_, _)
RepoAncestors(t, i) ==
    IF i = 0 THEN {} ELSE {t.parent[i]} \cup RepoAncestors(t, t.parent[i])

\* the listing of directory d is fetched when the listings above it succeed
RepoReached(t, d) == RepoAncestors(t, d) \cap t.fails = {}

\* C17: when the listing fetch of a directory that the flattening reaches
\* fails, the flattening call reports failure
C17_AnyFetchFailureFailsTheCall ==
    outcome.kind = "repo"
    => ((\E d \in fixture.fails : RepoReached(fixture, d))
        => outcome.result.success = FALSE)

RepoFiles(t) == {i \in 1..t.n : t.type[i] = "file"}

\* the entries from the root directory down to entry i
RECURSIVE RepoBranch(_, _)
RepoBranch(t, i) == IF i = 0 THEN <<>> ELSE Append(RepoBranch(t, t.parent[i]), i)

\* branch a leaves the common part to an entry listed before that of branch b
ListedBefore(a, b) ==
    \E k \in 1..Len(a) :
        /\ k <= Len(b)
        /\ a[k] < b[k]
        /\ \A j \in 1..(k - 1) : a[j] = b[j]

ExampleRepo ==
    [kind |-> "repo", n |-> 5, parent |-> <<0, 0, 2, 2, 4>>,
     type |-> <<"file", "dir", "file", "dir", "file">>, root |-> <<>>, fails |-> {}]

ExamplePaths ==
    <<<<"a.txt">>, <<"dir", "/", "b.txt">>, <<"dir", "/", "sub", "/", "c.txt">>>>

\* C18: when every listing succeeds the flattening succeeds with one
\* descriptor per file and none for a directory, each with the file's name
\* and its path from the root, parents' files and earlier siblings first; the
\* tree {a.txt, dir/b.txt, dir/sub/c.txt} gives these three paths in this order
C18_FlatteningListsEveryFileInPreOrder ==
    (outcome.kind = "repo" /\ fixture.fails = {})
    => /\ outcome.result.success
       /\ LET items == outcome.result.items
              F == RepoFiles(fixture)
              at(k) == CHOOSE f \in F : TruePath(fixture, f) = items[k].path
          IN /\ Len(items) = Cardinality(F)
             /\ \A f \in F : \E k \in 1..Len(items) :
                   items[k] = [name |-> RepoNames[f], path |-> TruePath(fixture, f),
                               type |-> "file"]
             /\ \A k, l \in 1..Len(items) :
                   k < l => ListedBefore(RepoBranch(fixture, at(k)),
                                         RepoBranch(fixture, at(l)))
             /\ fixture = ExampleRepo
                  => [k \in 1..Len(items) |-> items[k].path] = ExamplePaths

C18_Witness ==
    /\ fixture = ExampleRepo
    /\ outcome.kind = "repo"
    /\ outcome.result.success
    /\ Len(outcome.result.items) = 3
    /\ outcome.result.items[3].path = ExamplePaths[3]

\* depth of block i: the children of the page are at depth 0
RECURSIVE DocDepth(_, _)
DocDepth(doc, i) == IF doc.parent[i] = 0 THEN 0 ELSE 1 + DocDepth(doc, doc.parent[i])

\* the tokens of the content the call returned
ShownTexts == IF outcome.result.success THEN Range(outcome.result.content) ELSE {}

\* C19: the text of a block appears in the content only if the block carries
\* text and lies at depth 0 to 3, and it does appear when no fetch fails; no
\* children list is fetched at a depth greater than 3, and the depth a list
\* is fetched at is the depth of its blocks
C19_DepthBoundThree ==
    outcome.kind = "doc"
    => /\ \A i \in 1..fixture.n :
             BlockTexts[i] \in ShownTexts
             => fixture.text[i] /\ DocDepth(fixture, i) <= 3
       /\ fixture.fails = {}
            => \A i \in 1..fixture.n :
                  (fixture.text[i] /\ DocDepth(fixture, i) <= 3)
                  => BlockTexts[i] \in ShownTexts
       /\ \A k \in 1..Len(outcome.fetched) :
             /\ outcome.fetched[k].depth <= 3
             /\ outcome.fetched[k].depth =
                  IF outcome.fetched[k].id = 0 THEN 0
                  ELSE DocDepth(fixture, outcome.fetched[k].id) + 1

\* a document nested to depth 5, every block with text
C19_Witness ==
    /\ fixture.kind = "doc"
    /\ fixture.n = 6
    /\ fixture.parent = <<0, 1, 2, 3, 4, 5>>
    /\ \A i \in 1..6 : fixture.text[i]
    /\ fixture.fails = {}
    /\ outcome.kind = "doc"
    /\ outcome.result.content = <<"t1", "\n", "t2", "\n", "t3", "\n", "t4">>

EmptyDocument == [kind |-> "doc", n |-> 0, parent |-> <<>>, text |-> <<>>, fails |-> {}]

\* C20: the call reports failure exactly when the extracted text is empty,
\* and a call during which a fetch failed does not return what the call
\* returns for a document without content
C20_FailureIffEmptyAndDistinguishable ==
    outcome.kind = "doc"
    => /\ (outcome.result.success = FALSE)
            <=> (Join("\n", walk(fixture, 0, 0).txt) = <<>>)
       /\ (\E k \in 1..Len(outcome.fetched) : outcome.fetched[k].id \in fixture.fails)
            => outcome.result # GetPageContent(EmptyDocument)

\* ------------------------------------------------------- tables and order
\* the blocks above block i, the page (0) included
RECURSIVE DocAncestors(_, _)
DocAncestors(doc, i) ==
    IF i = 0 THEN {} ELSE {doc.parent[i]} \cup DocAncestors(doc, doc.parent[i])

\* the children list that holds block i, and every list above it, is delivered
Delivered(doc, i) == DocAncestors(doc, i) \cap doc.fails = {}

\* the blocks from the page down to block i
RECURSIVE DocBranch(_, _)
DocBranch(doc, i) == IF i = 0 THEN <<>> ELSE Append(DocBranch(doc, doc.parent[i]), i)

\* document order: a block before its descendants, a block's subtree before
\* its later siblings
DocBefore(doc, a, b) ==
    \/ a \in DocAncestors(doc, b)
    \/ ListedBefore(DocBranch(doc, a), DocBranch(doc, b))

\* the blocks of S in document order
RECURSIVE InDocOrder(_, _)
InDocOrder(doc, S) ==
    IF S = {} THEN <<>>
    ELSE LET m == CHOOSE x \in S : \A y \in S \ {x} : DocBefore(doc, x, y)
         IN <<m>> \o InDocOrder(doc, S \ {m})

\* the embedded and linked tables of a document
Tables(doc) == {i \in 1..doc.n : doc.type[i] # "paragraph"}
TablesWithinBound(doc) == {i \in Tables(doc) : DocDepth(doc, i) <= 3}

\* the entry that describes table i
Descriptor(doc, i) ==
    IF doc.type[i] = "child_database"
    THEN [database_id |-> BlockIds[i], title |-> DbTitles[i], type |-> "child_database"]
    ELSE [database_id |-> LinkedIds[i], title |-> "Linked Database",
          type |-> "linked_database"]

\* the result of the latest call of notion_get_db_from_page
LastResult == outcome.results[Len(outcome.results)]
Found == IF LastResult.success THEN Range(LastResult.all_databases) ELSE {}

\* C21: the call reports failure, with an error message, exactly when the
\* document has no embedded or linked table at depth 0 to 3
C21_FailureIffNoTableWithinBound ==
    outcome.kind = "db"
    => /\ (LastResult.success = FALSE) <=> (TablesWithinBound(fixture) = {})
       /\ LastResult.success = FALSE => "error" \in DOMAIN LastResult

C27_PreOrderListAndPrimary ==
    (outcome.kind = "db" /\ LastResult.success)
    => LET r == LastResult
           ord == InDocOrder(fixture, {i \in TablesWithinBound(fixture) :
                                         Delivered(fixture, i)})
       IN /\ r.all_databases = [k \in 1..Len(ord) |-> Descriptor(fixture, ord[k])]
          /\ [database_id |-> r.database_id, title |-> r.title, type |-> r.type]
               = r.all_databases[1]
          /\ r.total_found = Len(r.all_databases)

\* block 3 is a child of block 1 and block 2 is the later sibling of block 1
C27_Witness ==
    /\ outcome.kind = "db"
    /\ fixture.n = 3
    /\ fixture.parent = <<0, 0, 1>>
    /\ fixture.type = <<"linked_database", "child_database", "child_database">>
    /\ LastResult.success
    /\ LastResult.database_id = LinkedIds[1]
    /\ LastResult.all_databases[2].database_id = BlockIds[3]
    /\ LastResult.total_found = 3

\* C29: a table at depth 4 or deeper is never reported; the tables at depth
\* 0 to 3 whose lists were delivered are reported also when the document is
\* deeper than the bound, and the call succeeds exactly when it found a table
C29_DiscoveryDepthBound ==
    outcome.kind = "db"
    => /\ \A i \in Tables(fixture) :
             DocDepth(fixture, i) >= 4 => Descriptor(fixture, i) \notin Found
       /\ \A i \in TablesWithinBound(fixture) :
             Delivered(fixture, i) => Descriptor(fixture, i) \in Found
       /\ LastResult.success
            <=> (\E i \in TablesWithinBound(fixture) : Delivered(fixture, i))
       /\ LastResult.success = FALSE => LastResult.error = NoDatabaseMessage

\* a chain of five tables, the last at depth 4
C29_Witness ==
    /\ outcome.kind = "db"
    /\ fixture.n = 5
    /\ fixture.parent = <<0, 1, 2, 3, 4>>
    /\ \A i \in 1..5 : fixture.type[i] = "child_database"
    /\ fixture.fails = {}
    /\ LastResult.success
    /\ LastResult.total_found = 4

\* C24 for notion_get_page_content: when a children list it asks for comes
\* back with a status other than 200, the handler's result is a failed result
C24_NonSuccessStatusYieldsFailedResult ==
    outcome.kind = "doc"
    => \A k \in 1..Len(outcome.fetched) :
          outcome.fetched[k].id \in fixture.fails => outcome.result.success = FALSE

\* blocks whose text notion_get_page_content visits
VisitedTextBlocks(doc) ==
    {i \in 1..doc.n : doc.text[i] /\ DocDepth(doc, i) <= 3 /\ Delivered(doc, i)}

\* C28: the content is the text of the visited blocks in document order,
\* joined by newlines
C28_ContentInDocumentOrder ==
    (outcome.kind = "doc" /\ outcome.result.success)
    => LET ord == InDocOrder(fixture, VisitedTextBlocks(fixture))
       IN outcome.result.content
            = Join("\n", [k \in 1..Len(ord) |-> <<BlockTexts[ord[k]]>>])

\* block 3 is a child of block 1 and block 2 is the later sibling of block 1
C28_Witness ==
    /\ outcome.kind = "doc"
    /\ fixture.n = 3
    /\ fixture.parent = <<0, 0, 1>>
    /\ outcome.result.success
    /\ outcome.result.content = <<"t1", "\n", "t3", "\n", "t2">>

\* ---------------------------------------------------- answers and results
\* the run has returned from the branch for a message without tool calls
ReturnedFinal ==
    /\ run_pc = "returned"
    /\ raised = "none"
    /\ messages # <<>>
    /\ IsFinalMessage(messages[Len(messages)])

FinalContent == messages[Len(messages)].content

NotionLabel == "Notion pages: "
GitLabel == "Git files: "

\* ans is text left untouched when it holds the marker or nothing was
\* recorded; otherwise text, the header, and a footer in which each kind with
\* a recorded identifier has its label once, before its identifiers, each
\* identifier occurs once, and the identifiers of a kind are sorted
FooterRule(ans, text, src) ==
    LET ids == src.notion_pages \cup src.git_files
    IN IF BasedOn \in Range(text) \/ ids = {} THEN ans = text
       ELSE /\ Len(ans) > Len(text) + 1
            /\ SubSeq(ans, 1, Len(text)) = text
            /\ ans[Len(text) + 1] = SourcesHeader
            /\ FooterCount(ans) = 1
            /\ LET footer == SubSeq(ans, Len(text) + 2, Len(ans))
                   Pos(x) == {k \in 1..Len(footer) : footer[k] = x}
                   At(x) == CHOOSE k \in Pos(x) : TRUE
                   Under(label, S) ==
                       /\ Cardinality(Pos(label)) = (IF S = {} THEN 0 ELSE 1)
                       /\ \A a \in S : At(label) < At(a)
                       /\ \A a, b \in S : StrRank(a) < StrRank(b) => At(a) < At(b)
               IN /\ \A x \in ids : Cardinality(Pos(x)) = 1
                  /\ Under(NotionLabel, src.notion_pages)
                  /\ Under(GitLabel, src.git_files)
                  /\ \A a \in src.notion_pages :
                        src.git_files # {} => At(a) < At(GitLabel)

\* C23 as stated: the answer is built from the trimmed text of the message
C23_AnswerIsTrimmedTextWithFooter ==
    ReturnedFinal => FooterRule(answer, Strip(FinalContent), sources)

\* C23 amended: the answer is built from the trimmed text of the message, or
\* from the fixed text "No response generated." when the message has no text
C23_AnswerIsTextOrPlaceholderWithFooter ==
    ReturnedFinal
    => FooterRule(answer,
                  IF FinalContent = NoContent THEN NoResponse ELSE Strip(FinalContent),
                  sources)

C23_Witness ==
    /\ ReturnedFinal
    /\ sources = [notion_pages |-> {"P1"}, git_files |-> {"x.py"}]
    /\ BasedOn \notin Range(answer)
    /\ FooterCount(answer) = 1
    /\ Cardinality({k \in 1..Len(answer) : answer[k] = "P1"}) = 1
    /\ Cardinality({k \in 1..Len(answer) : answer[k] = "x.py"}) = 1

\* C25: every run that has started returns an answer to its caller
C25_RunEventuallyReturns == (run_pc = "loop") ~> (run_pc = "returned")

C25_Witness ==
    /\ run_pc = "returned"
    /\ raised = "result"
    /\ completion_calls = 1

\* C26: of the three outcomes of _call for a reply, the one whose case the
\* reply is in applies: the decoded value when the first payload decodes, the
\* raw text wrapped as a success when it does not, a failed result when the
\* reply has no content
C26_OneOfThreeOutcomes ==
    outcome.kind = "call"
    => LET content == fixture.reply.content
           res == outcome.result
           none == Len(content) = 0
           decodes == ~none /\ (content[1].kind = "json"
                                \/ content[1].raw \in JsonScalarTexts)
           decoded == decodes /\ res = (IF content[1].kind = "json"
                                        THEN [isDict |-> TRUE, value |-> content[1].obj]
                                        ELSE [isDict |-> FALSE])
           fallback == ~none /\ ~decodes
                       /\ res = [isDict |-> TRUE,
                                 value |-> [success |-> TRUE, content |-> content[1].raw]]
           failed == none /\ res.isDict /\ IsFailureEnvelope(res.value)
       IN /\ decoded \/ fallback \/ failed
          /\ ~(decoded /\ fallback) /\ ~(decoded /\ failed) /\ ~(fallback /\ failed)

C26_Witness ==
    /\ outcome.kind = "call"
    /\ Len(fixture.reply.content) = 2
    /\ fixture.reply.content[1] = RawText(UnknownToolMessage)
    /\ fixture.reply.content[2].kind = "json"
    /\ outcome.result.value = [success |-> TRUE, content |-> UnknownToolMessage]

\* C30: the step that processes a tool result changes the provenance sets as
\* the table says, a failed result or another tool's result changes nothing,
\* and no step of a run removes an identifier
C30_ProvenanceFollowsFixedTable ==
    [][/\ (run_pc = "awaiting_tool" /\ Len(messages') = Len(messages) + 1)
           => LET name == CurrentToolCall.function.name
                  args == JsonLoadsArgs(CurrentToolCall.function.arguments).value
                  result == messages'[Len(messages')].content
              IN IF ~ResultSuccess(result) THEN sources' = sources
                 ELSE CASE name = "notion_get_page_content" ->
                             /\ "page_id" \in DOMAIN args
                             /\ sources' = [sources EXCEPT !.notion_pages =
                                               @ \cup {args.page_id}]
                        [] name = "notion_query_database" ->
                             sources' = [sources EXCEPT !.notion_pages =
                                            @ \cup {"Project Database"}]
                        [] name = "github_get_file" ->
                             /\ "path" \in DOMAIN args
                             /\ sources' = [sources EXCEPT !.git_files =
                                               @ \cup {args.path}]
                        [] OTHER -> sources' = sources
       /\ run_pc # "idle"
           => /\ sources.notion_pages \subseteq sources'.notion_pages
              /\ sources.git_files \subseteq sources'.git_files]_vars

\* ------------------------------------------------ provenance and answering
\* the handler that served the invocation in flight returned success=true
HandlerReturnedSuccess ==
    /\ inflight.kind = "reply"
    /\ ~inflight.reply.isError
    /\ Len(inflight.reply.content) > 0
    /\ inflight.reply.content[1].kind = "json"
    /\ ResultSuccess(inflight.reply.content[1].obj)

\* C31: a step of a run adds an identifier to the provenance sets only when
\* the handler that served the invocation completed and returned success=true
C31_ProvenanceOnlyFromHandlerSuccess ==
    [][(run_pc # "idle" /\ sources' # sources) => HandlerReturnedSuccess]_vars

\* a completion call is issued in this step, and it is not the run's first
LaterCompletionCall ==
    /\ run_pc = "loop"
    /\ completion_calls >= 1
    /\ completion_calls' = completion_calls + 1

\* C32: the conversation passed to a completion call after the first ends
\* with the latest assistant message and then one tool message for each of
\* its requests, in the order of the requests, and nothing else
C32_EveryRequestAnsweredBeforeNextCall ==
    [][LaterCompletionCall
         => LET a == LastAssistant
            IN /\ a > 0
               /\ HasToolCalls(messages[a])
               /\ Len(messages) - a = Len(messages[a].tool_calls)
               /\ \A k \in 1..Len(messages[a].tool_calls) :
                     /\ IsToolMessage(messages[a + k])
                     /\ messages[a + k].tool_call_id = messages[a].tool_calls[k].id]_vars

\* a second completion call was made after a turn with two requests
C32_Witness ==
    /\ completion_calls = 2
    /\ Len(messages) >= 6
    /\ HasToolCalls(messages[3])
    /\ Len(messages[3].tool_calls) = 2
    /\ IsToolMessage(messages[4])
    /\ IsToolMessage(messages[5])
    /\ messages[6].role = "assistant"
====
